---------------------------- MODULE Spec2Model ----------------------------
(***************************************************************************)
(* A model of KAN-TTS's model factory (kantts/models/__init__.py) and of   *)
(* its training losses and criterion factory (kantts/train/loss.py).       *)
(*                                                                         *)
(* Python dictionaries are functions over their keys, kept together with   *)
(* the insertion order where the code iterates over them.  Tensors are     *)
(* finite sequences of integers, loss values are exact rationals.  Every   *)
(* object the builders construct is appended to a construction log (heap), *)
(* so that identity ("the optimizer built over this model's parameters")   *)
(* and order ("before any wrapping") can be stated.                        *)
(***************************************************************************)
EXTENDS Integers, Sequences, FiniteSets, TLC

VARIABLES
    \* criterion_builder(config, device)
    crit_config,      \* config["Loss"] as the sequence of its (key, value) items
    crit_device,      \* the device argument
    crit_idx,         \* position of the for loop over config["Loss"].items()
    criterion,        \* the local dictionary criterion
    crit_ret,         \* outcome of the call: pending, return or raise
    \* model_builder(config, device, rank, distributed) and the builder it runs
    mb_args,          \* the arguments model_builder received (absent ones take defaults)
    mb_pc,            \* position in model_builder and in the builder it called
    builder_call,     \* the builder called and the arguments passed to it
    heap,             \* every object constructed so far, in construction order
    model,            \* the builder's local dictionary model (values are heap ids)
    optimizer,        \* the builder's local dictionary optimizer
    scheduler,        \* the builder's local dictionary scheduler
    mb_idx,           \* position of the builder's current for loop
    builder_ret,      \* outcome of the builder: pending, return or raise
    mb_ret,           \* outcome of model_builder: pending, return or raise
    \* GeneratorAdversarialLoss.forward(outputs)
    gen_call,         \* the module's attributes (self) and the argument outputs
    gen_ret,          \* outcome of the call
    \* DiscriminatorAdversarialLoss.forward(outputs_hat, outputs)
    dis_call,         \* self, outputs_hat and outputs
    dis_ret,          \* outcome of the call
    \* FeatureMatchLoss.forward(feats_hat, feats)
    fm_call,          \* self, feats_hat and feats
    fm_ret,           \* outcome of the call
    \* MelReconLoss.forward(output_lengths, mel_targets, dec_outputs, postnet_outputs)
    mel_call,         \* self and the four arguments
    mel_ret,          \* outcome of the call
    mel_first         \* an earlier call and its outcome, to compare two calls

critVars == <<crit_config, crit_device, crit_idx, criterion, crit_ret>>

mbVars == <<mb_args, mb_pc, builder_call, heap, model, optimizer, scheduler, mb_idx,
            builder_ret, mb_ret>>

lossVars == <<gen_call, gen_ret, dis_call, dis_ret, fm_call, fm_ret>>

melVars == <<mel_call, mel_ret, mel_first>>

vars == <<critVars, mbVars, lossVars, melVars>>

-----------------------------------------------------------------------------
(* Each specification explores the calls of one function; the state of the others
   is the idle one. *)

\* The empty dictionary {}.
EmptyDict == [k \in {} |-> TRUE]

CritIdle ==
    /\ crit_config = <<>>
    /\ crit_device = "cpu"
    /\ crit_idx = 1
    /\ criterion = EmptyDict
    /\ crit_ret = [kind |-> "idle"]

\* No call of model_builder.
MbIdle ==
    /\ mb_args = EmptyDict
    /\ mb_pc = "idle"
    /\ builder_call = EmptyDict
    /\ heap = <<>>
    /\ model = EmptyDict
    /\ optimizer = EmptyDict
    /\ scheduler = EmptyDict
    /\ mb_idx = 1
    /\ builder_ret = [kind |-> "idle"]
    /\ mb_ret = [kind |-> "idle"]

GenIdle ==
    /\ gen_call = EmptyDict
    /\ gen_ret = [kind |-> "idle"]

DisIdle ==
    /\ dis_call = EmptyDict
    /\ dis_ret = [kind |-> "idle"]

FMIdle ==
    /\ fm_call = EmptyDict
    /\ fm_ret = [kind |-> "idle"]

MelIdle ==
    /\ mel_call = EmptyDict
    /\ mel_ret = [kind |-> "idle"]
    /\ mel_first = [kind |-> "none"]

LossIdle == GenIdle /\ DisIdle /\ FMIdle /\ MelIdle

-----------------------------------------------------------------------------
(* Python dictionaries *)

\* dict.get(key, default)
Get(d, key, default) == IF key \in DOMAIN d THEN d[key] ELSE default

\* d[key] = value on a dictionary
Put(d, key, value) == [k \in (DOMAIN d) \cup {key} |-> IF k = key THEN value ELSE d[k]]

\* The keys of a sequence of (key, value) items.
KeysOf(items) == {items[n][1] : n \in 1..Len(items)}

\* All sequences over S of length at most n whose keys (first components) differ.
ItemSeqs(S, n) ==
    UNION {{s \in [1..m -> S] : \A a, b \in 1..m : a # b => s[a][1] # s[b][1]} : m \in 0..n}

-----------------------------------------------------------------------------
(* Loss values: exact rationals num/den with den > 0, in lowest terms *)

Abs(n) == IF n < 0 THEN -n ELSE n

RECURSIVE GCD(_, _)
GCD(a, b) == IF b = 0 THEN a ELSE GCD(b, a % b)

\* n/d for d # 0.
Rat(n, d) ==
    LET g == GCD(Abs(n), Abs(d))
        sgn == IF d < 0 THEN -1 ELSE 1
    IN  [num |-> (sgn * n) \div g, den |-> (sgn * d) \div g]

\* The Python float 0.0 the accumulators start from.
Zero == [num |-> 0, den |-> 1]

RatAdd(a, b) == Rat(a.num * b.den + b.num * a.den, a.den * b.den)

\* a / k for an integer k # 0.
RatDiv(a, k) == Rat(a.num, a.den * k)

RatNeg(a) == [num |-> -a.num, den |-> a.den]

RECURSIVE SumInts(_)
SumInts(xs) == IF xs = <<>> THEN 0 ELSE Head(xs) + SumInts(Tail(xs))

\* torch.mean of a tensor given as the sequence of its elements.
Mean(xs) == Rat(SumInts(xs), Len(xs))

Min(a, b) == IF a < b THEN a ELSE b

(* Tensors and lists *)

Tensor(data) == [type |-> "Tensor", data |-> data]
List(items) == [type |-> "list", items |-> items]

\* isinstance(x, (tuple, list))
IsList(x) == x.type = "list"

\* x[0], for the mutation of FeatureOutput.
FirstItem(x) == IF IsList(x) THEN x.items[1] ELSE Tensor(<<x.data[1]>>)

\* x[-1]: the last item of a list, the last entry of a tensor.
LastItem(x) == IF IsList(x) THEN x.items[Len(x.items)] ELSE Tensor(<<x.data[Len(x.data)]>>)

Return(value) == [kind |-> "return", value |-> value]
Raise(exc) == [kind |-> "raise", exc |-> exc]

\* All sequences over S of length at most n.
SeqsUpTo(S, n) == UNION {[1..m -> S] : m \in 0..n}

\* Largest number of discriminators (items of the list arguments) explored.
MaxDisc == 2

\* The tensors explored, as discriminator outputs and as feature maps.
SampleTensors == {Tensor(<<2, 0>>), Tensor(<<-1>>), Tensor(<<1, 0, 3>>)}

LossTypes == {"mse", "hinge"}

-----------------------------------------------------------------------------
(* GeneratorAdversarialLoss *)

\* F.mse_loss(x, x.new_ones(x.size()))
Gen_mse_loss(x) == Mean([k \in 1..Len(x.data) |-> (x.data[k] - 1) * (x.data[k] - 1)])

\* -x.mean()
Gen_hinge_loss(x) == RatNeg(Mean(x.data))

\* self.criterion, chosen by loss_type in __init__
GenCriterion(self, x) ==
    IF self.loss_type = "mse" THEN Gen_mse_loss(x) ELSE Gen_hinge_loss(x)

\* The for loop of forward from item k on; st holds adv_loss and the loop variable
\* i, which is unbound until the first iteration.
RECURSIVE GenLoop(_, _, _, _)
GenLoop(self, items, k, st) ==
    IF k > Len(items)
    THEN st
    ELSE GenLoop(self, items, k + 1,
                 [adv_loss |-> RatAdd(st.adv_loss, GenCriterion(self, items[k])),
                  i_bound  |-> TRUE,
                  i        |-> k - 1])

\* Mutation of GenAverage: the divisor is off by one.
GenAverageOffByOne(adv_loss, i) == RatDiv(adv_loss, i + 2)

\* adv_loss /= i + 1
GenAverage(adv_loss, i) == RatDiv(adv_loss, i + 1)

\* GeneratorAdversarialLoss.forward(outputs)
GenForward(self, outputs) ==
    IF IsList(outputs)
    THEN LET st == GenLoop(self, outputs.items, 1,
                           [adv_loss |-> Zero, i_bound |-> FALSE, i |-> 0])
         IN  IF self.average_by_discriminators
             THEN IF st.i_bound
                  THEN Return(GenAverage(st.adv_loss, st.i))
                  ELSE Raise("UnboundLocalError")
             ELSE Return(st.adv_loss)
    ELSE Return(GenCriterion(self, outputs))

AdvSelves ==
    [average_by_discriminators : BOOLEAN, loss_type : LossTypes]

GenCall ==
    /\ gen_call \in [self : AdvSelves,
                     outputs : SampleTensors
                               \cup {List(l) : l \in SeqsUpTo(SampleTensors, MaxDisc)}]
    /\ gen_ret = [kind |-> "pending"]

GenForwardCall ==
    /\ gen_ret.kind = "pending"
    /\ gen_ret' = GenForward(gen_call.self, gen_call.outputs)
    /\ UNCHANGED <<critVars, mbVars, melVars, gen_call, dis_call, dis_ret, fm_call, fm_ret>>

-----------------------------------------------------------------------------
(* DiscriminatorAdversarialLoss *)

\* F.mse_loss(x, x.new_ones(x.size()))
Dis_mse_real_loss(x) == Mean([k \in 1..Len(x.data) |-> (x.data[k] - 1) * (x.data[k] - 1)])

\* F.mse_loss(x, x.new_zeros(x.size()))
Dis_mse_fake_loss(x) == Mean([k \in 1..Len(x.data) |-> x.data[k] * x.data[k]])

\* -torch.mean(torch.min(x - 1, x.new_zeros(x.size())))
Dis_hinge_real_loss(x) == RatNeg(Mean([k \in 1..Len(x.data) |-> Min(x.data[k] - 1, 0)]))

\* -torch.mean(torch.min(-x - 1, x.new_zeros(x.size())))
Dis_hinge_fake_loss(x) == RatNeg(Mean([k \in 1..Len(x.data) |-> Min(-x.data[k] - 1, 0)]))

\* self.real_criterion and self.fake_criterion, chosen by loss_type in __init__
real_criterion(self, x) ==
    IF self.loss_type = "mse" THEN Dis_mse_real_loss(x) ELSE Dis_hinge_real_loss(x)
fake_criterion(self, x) ==
    IF self.loss_type = "mse" THEN Dis_mse_fake_loss(x) ELSE Dis_hinge_fake_loss(x)

\* Mutation of FeatureOutput: the first feature map instead of the output.
FeatureOutputFirst(x) == FirstItem(x)

\* The output of a discriminator that returns its feature maps too: outputs_[-1]
FeatureOutput(x) == LastItem(x)

\* The for loop of forward over zip(outputs_hat, outputs) from pair k on.
RECURSIVE DisLoop(_, _, _, _, _)
DisLoop(self, hats, outs, k, st) ==
    IF k > Min(Len(hats), Len(outs))
    THEN st
    ELSE LET nested   == IsList(hats[k])
             outputs_hat_ == IF nested THEN FeatureOutput(hats[k]) ELSE hats[k]
             outputs_     == IF nested THEN FeatureOutput(outs[k]) ELSE outs[k]
         IN  DisLoop(self, hats, outs, k + 1,
                     [real_loss |-> RatAdd(st.real_loss, real_criterion(self, outputs_)),
                      fake_loss |-> RatAdd(st.fake_loss, fake_criterion(self, outputs_hat_)),
                      i_bound   |-> TRUE,
                      i         |-> k - 1])

\* DiscriminatorAdversarialLoss.forward(outputs_hat, outputs): (real_loss, fake_loss)
DisForward(self, outputs_hat, outputs) ==
    IF IsList(outputs)
    THEN LET st == DisLoop(self, outputs_hat.items, outputs.items, 1,
                           [real_loss |-> Zero, fake_loss |-> Zero,
                            i_bound |-> FALSE, i |-> 0])
         IN  IF self.average_by_discriminators
             THEN IF st.i_bound
                  THEN Return(<<RatDiv(st.real_loss, st.i + 1),
                                RatDiv(st.fake_loss, st.i + 1)>>)
                  ELSE Raise("UnboundLocalError")
             ELSE Return(<<st.real_loss, st.fake_loss>>)
    ELSE Return(<<real_criterion(self, outputs), fake_criterion(self, outputs_hat)>>)

\* What one discriminator returns: its output, or the list of its feature maps
\* ending with its output.
DisElements ==
    {Tensor(<<2, 0>>), Tensor(<<-1>>),
     List(<<Tensor(<<1, 0, 3>>), Tensor(<<2, 0>>)>>),
     List(<<Tensor(<<2, 0>>), Tensor(<<1, 0, 3>>), Tensor(<<-1>>)>>)}

\* The generated and the ground-truth side come from the same discriminators:
\* paired items are both tensors or both lists.  The two lists may differ in length.
SameKinds(hats, outs) ==
    \A k \in 1..Min(Len(hats), Len(outs)) : IsList(hats[k]) = IsList(outs[k])

DisCall ==
    /\ dis_call \in
         [self : AdvSelves, outputs_hat : SampleTensors, outputs : SampleTensors]
         \cup {[self |-> sf, outputs_hat |-> List(h), outputs |-> List(o)] :
                  sf \in AdvSelves,
                  h \in SeqsUpTo(DisElements, MaxDisc),
                  o \in SeqsUpTo(DisElements, MaxDisc)}
    /\ IsList(dis_call.outputs) => SameKinds(dis_call.outputs_hat.items, dis_call.outputs.items)
    /\ dis_ret = [kind |-> "pending"]

DisForwardCall ==
    /\ dis_ret.kind = "pending"
    /\ dis_ret' = DisForward(dis_call.self, dis_call.outputs_hat, dis_call.outputs)
    /\ UNCHANGED <<critVars, mbVars, melVars, gen_call, gen_ret, dis_call, fm_call, fm_ret>>

-----------------------------------------------------------------------------
(* FeatureMatchLoss *)

\* Largest number of layers (feature maps) of one discriminator explored.
MaxLayers == 2

\* F.l1_loss(feat_hat_, feat_.detach()) for two tensors of one shape
l1_loss(x, y) == Mean([k \in 1..Len(x.data) |-> Abs(x.data[k] - y.data[k])])

\* The inner for loop over zip(feats_hat_, feats_) from layer l on; the loop
\* variable j keeps its value from the previous discriminator until it is rebound.
RECURSIVE FMLayers(_, _, _, _)
FMLayers(feats_hat_, feats_, l, st) ==
    IF l > Min(Len(feats_hat_), Len(feats_))
    THEN st
    ELSE FMLayers(feats_hat_, feats_, l + 1,
                  [feat_match_loss_ |-> RatAdd(st.feat_match_loss_,
                                               l1_loss(feats_hat_[l], feats_[l])),
                   j_bound |-> TRUE,
                   j       |-> l - 1])

\* Mutation of LayerAverage: every discriminator is divided by the layer count of
\* the first one.
LayerAverageByFirst(feat_match_loss_, j, feats_hat) ==
    RatDiv(feat_match_loss_, Len(feats_hat[1]))

\* feat_match_loss_ /= j + 1
LayerAverage(feat_match_loss_, j, feats_hat) == RatDiv(feat_match_loss_, j + 1)

\* The outer for loop over zip(feats_hat, feats) from discriminator k on.
RECURSIVE FMLoop(_, _, _, _, _)
FMLoop(self, feats_hat, feats, k, st) ==
    IF k > Min(Len(feats_hat), Len(feats)) \/ st.raised
    THEN st
    ELSE LET inner == FMLayers(feats_hat[k], feats[k], 1,
                               [feat_match_loss_ |-> Zero,
                                j_bound |-> st.j_bound, j |-> st.j])
         IN  IF self.average_by_layers /\ ~inner.j_bound
             THEN [st EXCEPT !.raised = TRUE]
             ELSE FMLoop(self, feats_hat, feats, k + 1,
                         [feat_match_loss |->
                              RatAdd(st.feat_match_loss,
                                     IF self.average_by_layers
                                     THEN LayerAverage(inner.feat_match_loss_, inner.j,
                                                       feats_hat)
                                     ELSE inner.feat_match_loss_),
                          i_bound |-> TRUE, i |-> k - 1,
                          j_bound |-> inner.j_bound, j |-> inner.j,
                          raised  |-> FALSE])

\* FeatureMatchLoss.forward(feats_hat, feats)
FMForward(self, feats_hat, feats) ==
    LET st == FMLoop(self, feats_hat, feats, 1,
                     [feat_match_loss |-> Zero, i_bound |-> FALSE, i |-> 0,
                      j_bound |-> FALSE, j |-> 0, raised |-> FALSE])
    IN  IF st.raised
        THEN Raise("UnboundLocalError")
        ELSE IF self.average_by_discriminators
             THEN IF st.i_bound
                  THEN Return(RatDiv(st.feat_match_loss, st.i + 1))
                  ELSE Raise("UnboundLocalError")
             ELSE Return(st.feat_match_loss)

\* One layer of one discriminator: its feature map for the generated and for the
\* ground-truth signal, of one shape.
LayerPairs ==
    {<<Tensor(<<2, 0>>), Tensor(<<0, 0>>)>>,
     <<Tensor(<<1, 0, 3>>), Tensor(<<1, 2, 1>>)>>}

FMSelves == [average_by_layers : BOOLEAN, average_by_discriminators : BOOLEAN]

\* The generated (side 1) or ground-truth (side 2) features of lists of layer pairs.
Side(discs, n) == [k \in 1..Len(discs) |-> [l \in 1..Len(discs[k]) |-> discs[k][l][n]]]

FMCall ==
    /\ fm_call \in {[self |-> sf, feats_hat |-> Side(d, 1), feats |-> Side(d, 2)] :
                       sf \in FMSelves,
                       d \in SeqsUpTo(SeqsUpTo(LayerPairs, MaxLayers), MaxDisc)}
    /\ fm_ret = [kind |-> "pending"]

FMForwardCall ==
    /\ fm_ret.kind = "pending"
    /\ fm_ret' = FMForward(fm_call.self, fm_call.feats_hat, fm_call.feats)
    /\ UNCHANGED <<critVars, mbVars, melVars, gen_call, gen_ret, dis_call, dis_ret, fm_call>>

GenInit == GenCall /\ DisIdle /\ FMIdle /\ MelIdle /\ CritIdle /\ MbIdle
DisInit == DisCall /\ GenIdle /\ FMIdle /\ MelIdle /\ CritIdle /\ MbIdle
FMInit == FMCall /\ GenIdle /\ DisIdle /\ MelIdle /\ CritIdle /\ MbIdle

GenNext == GenForwardCall
DisNext == DisForwardCall
FMNext == FMForwardCall

SpecGen == GenInit /\ [][GenNext]_vars
SpecDis == DisInit /\ [][DisNext]_vars
SpecFM == FMInit /\ [][FMNext]_vars

(* Claims about the adversarial and feature-matching losses *)

\* The sum of a sequence of loss values.
RECURSIVE RatSum(_)
RatSum(rs) == IF rs = <<>> THEN Zero ELSE RatAdd(Head(rs), RatSum(Tail(rs)))

\* The sum of n >= 1 values, divided by n when averaging.
Aggregate(rs, average) == IF average THEN RatDiv(RatSum(rs), Len(rs)) ELSE RatSum(rs)

\* C6: on a list of n >= 1 discriminator outputs forward returns the sum of the
\* per-output criterion values, divided by n when average_by_discriminators is
\* true; on a single tensor it returns the criterion of the tensor, which is also
\* the result for the one-element list of that tensor under either setting.
C6_GeneratorLoss ==
    gen_ret.kind \notin {"idle", "pending"} =>
      LET self == gen_call.self
          outs == gen_call.outputs
      IN  IF IsList(outs)
          THEN Len(outs.items) >= 1 =>
                 LET values == [k \in 1..Len(outs.items) |-> GenCriterion(self, outs.items[k])]
                 IN  /\ gen_ret = Return(Aggregate(values, self.average_by_discriminators))
                     /\ Len(outs.items) = 1 => gen_ret = Return(values[1])
          ELSE /\ gen_ret = Return(GenCriterion(self, outs))
               /\ \A avg \in BOOLEAN :
                    GenForward([self EXCEPT !.average_by_discriminators = avg],
                               List(<<outs>>)) = gen_ret

\* C6 witness: the averaged loss of two outputs, which is not their sum.
C6_Witness ==
    /\ gen_ret.kind = "return"
    /\ IsList(gen_call.outputs)
    /\ Len(gen_call.outputs.items) = 2
    /\ gen_call.self.average_by_discriminators
    /\ gen_ret.value # RatSum([k \in 1..2 |->
                                  GenCriterion(gen_call.self, gen_call.outputs.items[k])])

\* C6 witness of the single tensor.
C6_WitnessTensor ==
    /\ gen_ret.kind = "return"
    /\ ~IsList(gen_call.outputs)
    /\ gen_ret.value # Zero

\* The tensor of a discriminator's item that the loss is computed on: the last
\* one of a list of feature maps, the item itself otherwise.
OutputOf(x) == IF x.type = "list" THEN x.items[Len(x.items)] ELSE x

\* Two lists of discriminator items of one shape: the same length, and lists at
\* the same places.
SameShape(xs, ys) ==
    /\ Len(xs) = Len(ys)
    /\ \A k \in 1..Len(xs) : IsList(xs[k]) = IsList(ys[k])

\* C7: forward returns (real_loss, fake_loss): real_loss is computed from outputs
\* by real_criterion and fake_loss from outputs_hat by fake_criterion, on the last
\* item of an element that is a list of feature maps, and both sums are divided by
\* the number of pairs processed when average_by_discriminators is true.  Neither
\* loss changes when the other side's values change.
C7_DiscriminatorLoss ==
    dis_ret.kind = "return" =>
      LET self == dis_call.self
          hat  == dis_call.outputs_hat
          outs == dis_call.outputs
      IN  IF IsList(outs)
          THEN LET n     == Min(Len(hat.items), Len(outs.items))
                   reals == [k \in 1..n |-> real_criterion(self, OutputOf(outs.items[k]))]
                   fakes == [k \in 1..n |-> fake_criterion(self, OutputOf(hat.items[k]))]
               IN  /\ dis_ret.value = <<Aggregate(reals, self.average_by_discriminators),
                                        Aggregate(fakes, self.average_by_discriminators)>>
                   /\ \A other \in SeqsUpTo(DisElements, MaxDisc) :
                        /\ SameShape(other, hat.items) =>
                             DisForward(self, List(other), outs).value[1] = dis_ret.value[1]
                        /\ SameShape(other, outs.items) =>
                             DisForward(self, hat, List(other)).value[2] = dis_ret.value[2]
          ELSE /\ dis_ret.value = <<real_criterion(self, outs), fake_criterion(self, hat)>>
               /\ \A other \in SampleTensors :
                    /\ DisForward(self, other, outs).value[1] = dis_ret.value[1]
                    /\ DisForward(self, hat, other).value[2] = dis_ret.value[2]

\* C7 witness: an averaged call on two pairs, the first with feature maps whose
\* last item differs from the first, returned different real and fake losses.
C7_Witness ==
    /\ dis_ret.kind = "return"
    /\ dis_call.self.average_by_discriminators
    /\ IsList(dis_call.outputs)
    /\ Len(dis_call.outputs.items) = 2
    /\ Len(dis_call.outputs_hat.items) = 2
    /\ IsList(dis_call.outputs.items[1])
    /\ dis_call.outputs.items[1].items[1] # OutputOf(dis_call.outputs.items[1])
    /\ dis_call.outputs_hat.items # dis_call.outputs.items
    /\ dis_ret.value[1] # dis_ret.value[2]

\* feats_hat and feats are non-empty lists of non-empty feature lists.
FMNonEmpty ==
    /\ Len(fm_call.feats_hat) >= 1
    /\ \A k \in 1..Len(fm_call.feats_hat) : Len(fm_call.feats_hat[k]) >= 1

\* C8: for non-empty lists of non-empty feature lists forward returns the sum over
\* the discriminators of each one's sum over all its layers of the L1 distance of
\* the generated and the ground-truth feature, divided by that discriminator's own
\* number of layers when average_by_layers is true; the total is divided by the
\* number of discriminators when average_by_discriminators is true.
C8_FeatureMatchLoss ==
    (fm_ret.kind \notin {"idle", "pending"} /\ FMNonEmpty) =>
      LET self == fm_call.self
          perDisc == [k \in 1..Len(fm_call.feats_hat) |->
                        Aggregate([l \in 1..Len(fm_call.feats_hat[k]) |->
                                      l1_loss(fm_call.feats_hat[k][l], fm_call.feats[k][l])],
                                  self.average_by_layers)]
      IN  fm_ret = Return(Aggregate(perDisc, self.average_by_discriminators))

\* C8 witness: two discriminators with different numbers of layers, averaged by
\* layers and by discriminators.
C8_Witness ==
    /\ fm_ret.kind = "return"
    /\ fm_call.self.average_by_layers
    /\ fm_call.self.average_by_discriminators
    /\ Len(fm_call.feats_hat) = 2
    /\ Len(fm_call.feats_hat[1]) = 1
    /\ Len(fm_call.feats_hat[2]) = 2
    /\ fm_ret.value # Zero

-----------------------------------------------------------------------------
(* The three losses on lists of any length, the empty list included *)

\* One call of one of GeneratorAdversarialLoss.forward,
\* DiscriminatorAdversarialLoss.forward and FeatureMatchLoss.forward.
AdvInit == GenInit \/ DisInit \/ FMInit

AdvNext == GenForwardCall \/ DisForwardCall \/ FMForwardCall

SpecAdv == AdvInit /\ [][AdvNext]_vars

GenDone == gen_ret.kind \in {"return", "raise"}
DisDone == dis_ret.kind \in {"return", "raise"}
FMDone == fm_ret.kind \in {"return", "raise"}

\* The number of pairs zip(a, b) yields.
ZipLen(a, b) == Min(Len(a), Len(b))

\* C11 as stated: forward of the three losses returns a loss value for every list
\* input, the empty list included, whatever average_by_discriminators and
\* average_by_layers are.
C11_AsStated ==
    /\ (GenDone /\ IsList(gen_call.outputs)) => gen_ret.kind = "return"
    /\ (DisDone /\ IsList(dis_call.outputs)) => dis_ret.kind = "return"
    /\ FMDone => fm_ret.kind = "return"

\* C11, what forward does on lists: it ends with UnboundLocalError exactly when a
\* loop that ran no iteration is followed by the division by its loop variable:
\* no discriminator output (no pair of outputs) under average_by_discriminators,
\* or a first discriminator with no layer under average_by_layers; and on every
\* other list it returns, 0.0 for the loops that ran no iteration.
C11_EmptyListBehaviour ==
    /\ (GenDone /\ IsList(gen_call.outputs)) =>
         LET n == Len(gen_call.outputs.items)
         IN  /\ (gen_ret = Raise("UnboundLocalError"))
                   <=> (n = 0 /\ gen_call.self.average_by_discriminators)
             /\ (gen_ret.kind = "raise") => gen_ret = Raise("UnboundLocalError")
             /\ (n = 0 /\ ~gen_call.self.average_by_discriminators)
                   => gen_ret = Return(Zero)
    /\ (DisDone /\ IsList(dis_call.outputs)) =>
         LET n == ZipLen(dis_call.outputs_hat.items, dis_call.outputs.items)
         IN  /\ (dis_ret = Raise("UnboundLocalError"))
                   <=> (n = 0 /\ dis_call.self.average_by_discriminators)
             /\ (dis_ret.kind = "raise") => dis_ret = Raise("UnboundLocalError")
             /\ (n = 0 /\ ~dis_call.self.average_by_discriminators)
                   => dis_ret = Return(<<Zero, Zero>>)
    /\ FMDone =>
         LET n == ZipLen(fm_call.feats_hat, fm_call.feats)
             noLayer == n >= 1 /\ ZipLen(fm_call.feats_hat[1], fm_call.feats[1]) = 0
         IN  /\ (fm_ret = Raise("UnboundLocalError"))
                   <=> \/ noLayer /\ fm_call.self.average_by_layers
                       \/ n = 0 /\ fm_call.self.average_by_discriminators
             /\ (fm_ret.kind = "raise") => fm_ret = Raise("UnboundLocalError")
             /\ (n = 0 /\ ~fm_call.self.average_by_discriminators)
                   => fm_ret = Return(Zero)

\* C11 witness: forward was called on a list of zero discriminator outputs under
\* average_by_discriminators, and the call is over.
C11_Witness ==
    \/ /\ GenDone
       /\ IsList(gen_call.outputs)
       /\ gen_call.outputs.items = <<>>
       /\ gen_call.self.average_by_discriminators
       /\ gen_ret = Raise("UnboundLocalError")
    \/ /\ DisDone
       /\ IsList(dis_call.outputs)
       /\ dis_call.outputs.items = <<>>
       /\ dis_call.outputs_hat.items = <<>>
       /\ dis_call.self.average_by_discriminators
       /\ dis_ret = Raise("UnboundLocalError")
    \/ /\ FMDone
       /\ fm_call.feats_hat = <<>>
       /\ fm_call.feats = <<>>
       /\ fm_call.self.average_by_discriminators
       /\ fm_ret = Raise("UnboundLocalError")

-----------------------------------------------------------------------------
(* MelReconLoss *)

\* Largest number of frames (mel_targets.size(1)) explored.
MaxFrames == 2

\* The batch entries and the mel bins of the tensors explored: shape (2, T, 2).
Batches == 1..2
MelBins == 1..2

None == [type |-> "None"]

\* get_mask_from_lengths(lengths, max_len) of kantts.models.utils: true at the
\* frame positions at or beyond each sequence's length (frames count from 1 here).
get_mask_from_lengths(lengths, max_len) ==
    [b \in DOMAIN lengths |-> [t \in 1..max_len |-> t > lengths[b]]]

\* mel_targets.size(1)
Frames(x) == Len(x.data[1])

\* self.criterion: L1Loss or MSELoss with reduction="none", on one element
MelCriterion(self, a, b) == IF self.loss_type = "mae" THEN Abs(a - b) ELSE (a - b) * (a - b)

\* Mutation of Masked: the mask is not applied.
Unmasked(err, valid) == err

\* One element of criterion(...) * output_masks.unsqueeze(-1)
Masked(err, valid) == err * (IF valid THEN 1 ELSE 0)

\* The (batch, frame, bin) index of the n-th element of a tensor of T frames.
ElementIndex(n, T) ==
    LET m == n - 1
        D == Cardinality(MelBins)
    IN  <<(m \div (T * D)) + 1, ((m \div D) % T) + 1, (m % D) + 1>>

\* torch.sum(self.criterion(mel_targets, outputs) * output_masks.unsqueeze(-1))
\*     / (valid_outputs * mel_targets.size(-1))
MaskedMean(self, mel_targets, outputs, output_masks, valid_outputs) ==
    LET T == Frames(mel_targets)
        D == Cardinality(MelBins)
        terms == [n \in 1..(Cardinality(Batches) * T * D) |->
                    LET ix == ElementIndex(n, T)
                    IN  Masked(MelCriterion(self, mel_targets.data[ix[1]][ix[2]][ix[3]],
                                            outputs.data[ix[1]][ix[2]][ix[3]]),
                               output_masks[ix[1]][ix[2]])]
    IN  Rat(SumInts(terms), valid_outputs * D)

\* MelReconLoss.forward: (mel_loss_, mel_loss)
MelForward(self, output_lengths, mel_targets, dec_outputs, postnet_outputs) ==
    LET masks == get_mask_from_lengths(output_lengths, Frames(mel_targets))
        output_masks == [b \in DOMAIN masks |-> [t \in DOMAIN masks[b] |-> ~masks[b][t]]]
        valid_outputs ==
            Cardinality({bt \in Batches \X (1..Frames(mel_targets)) :
                            output_masks[bt[1]][bt[2]]})
    IN  Return(<<MaskedMean(self, mel_targets, dec_outputs, output_masks, valid_outputs),
                 IF postnet_outputs # None
                 THEN MaskedMean(self, mel_targets, postnet_outputs, output_masks,
                                 valid_outputs)
                 ELSE Zero>>)

\* The tensors of the first call: all zero, or a ramp over the positions.
ZeroMel == Tensor([b \in Batches |-> [t \in 1..MaxFrames |-> [d \in MelBins |-> 0]]])
RampMel(k) ==
    Tensor([b \in Batches |-> [t \in 1..MaxFrames |-> [d \in MelBins |-> (k * b + 2 * t + d) % 4]]])

\* The values one frame is given in a later call.
FrameValues == [MelBins -> {0, 3}]

\* x with frame (b, t) replaced by the values f.
WithFrame(x, b, t, f) ==
    IF x = None THEN None ELSE Tensor([x.data EXCEPT ![b][t] = [d \in MelBins |-> f[d]]])

\* A first call: every sequence has at least one frame and at most all of them.
MelCall ==
    /\ mel_call \in [self            : [loss_type : {"mae", "mse"}],
                     output_lengths  : [Batches -> 1..MaxFrames],
                     mel_targets     : {RampMel(1)},
                     dec_outputs     : {ZeroMel, RampMel(3)},
                     postnet_outputs : {None, ZeroMel, RampMel(2)}]
    /\ mel_ret = [kind |-> "pending"]
    /\ mel_first = [kind |-> "none"]

MelForwardCall ==
    /\ mel_ret.kind = "pending"
    /\ mel_ret' = MelForward(mel_call.self, mel_call.output_lengths, mel_call.mel_targets,
                             mel_call.dec_outputs, mel_call.postnet_outputs)
    /\ UNCHANGED <<critVars, mbVars, lossVars, mel_call, mel_first>>

\* A second call of the same module with the same lengths, whose tensors differ
\* from the first call's in one frame.
MelSecondCall ==
    /\ mel_ret.kind = "return"
    /\ mel_first.kind = "none"
    /\ \E b \in Batches, t \in 1..MaxFrames, f, g, h \in FrameValues :
         mel_call' = [mel_call EXCEPT
                        !.mel_targets = WithFrame(@, b, t, f),
                        !.dec_outputs = WithFrame(@, b, t, g),
                        !.postnet_outputs = WithFrame(@, b, t, h)]
    /\ mel_first' = [kind |-> "call", call |-> mel_call, ret |-> mel_ret]
    /\ mel_ret' = [kind |-> "pending"]
    /\ UNCHANGED <<critVars, mbVars, lossVars>>

MelInit == MelCall /\ GenIdle /\ DisIdle /\ FMIdle /\ CritIdle /\ MbIdle

MelNext == MelForwardCall \/ MelSecondCall

SpecMel == MelInit /\ [][MelNext]_vars

(* Claims about MelReconLoss *)

\* The frames below each sequence's length.
ValidFrames(call) ==
    {bt \in Batches \X (1..Frames(call.mel_targets)) : bt[2] <= call.output_lengths[bt[1]]}

\* Two calls agree on every frame position below the sequence length.
AgreeOnValid(c1, c2) ==
    /\ c1.self = c2.self
    /\ c1.output_lengths = c2.output_lengths
    /\ (c1.postnet_outputs = None) = (c2.postnet_outputs = None)
    /\ \A bt \in ValidFrames(c1) :
         /\ c1.mel_targets.data[bt[1]][bt[2]] = c2.mel_targets.data[bt[1]][bt[2]]
         /\ c1.dec_outputs.data[bt[1]][bt[2]] = c2.dec_outputs.data[bt[1]][bt[2]]
         /\ c1.postnet_outputs # None =>
              c1.postnet_outputs.data[bt[1]][bt[2]] = c2.postnet_outputs.data[bt[1]][bt[2]]

\* The sum of f over the finite set S.
RECURSIVE SumOver(_, _)
SumOver(f, S) ==
    IF S = {} THEN 0
    ELSE LET x == CHOOSE x \in S : TRUE IN f[x] + SumOver(f, S \ {x})

\* The sum of the element-wise errors over the valid frames, divided by
\* (number of valid frames x mel dimension).
ValidMean(call, outputs) ==
    LET elems == ValidFrames(call) \X MelBins
        err == [e \in elems |->
                  MelCriterion(call.self,
                               call.mel_targets.data[e[1][1]][e[1][2]][e[2]],
                               outputs.data[e[1][1]][e[1][2]][e[2]])]
    IN  Rat(SumOver(err, elems), Cardinality(ValidFrames(call)) * Cardinality(MelBins))

\* C9: two calls that agree on every frame below the sequence lengths and differ
\* only at padded positions return the same pair of losses; each loss is the sum
\* of the element-wise errors over the valid frames divided by (number of valid
\* frames x mel dimension); with postnet_outputs None the second value is 0.0.
C9_MaskedReconLoss ==
    mel_ret.kind = "return" =>
      /\ mel_ret.value[1] = ValidMean(mel_call, mel_call.dec_outputs)
      /\ mel_ret.value[2] = (IF mel_call.postnet_outputs = None THEN Zero
                             ELSE ValidMean(mel_call, mel_call.postnet_outputs))
      /\ (mel_first.kind = "call" /\ AgreeOnValid(mel_first.call, mel_call))
           => mel_ret = mel_first.ret

\* C9 witness: a second call that differs from the first in a padded frame of all
\* three tensors returned the first call's non-zero losses.
C9_Witness ==
    /\ mel_ret.kind = "return"
    /\ mel_first.kind = "call"
    /\ AgreeOnValid(mel_first.call, mel_call)
    /\ mel_first.call.mel_targets # mel_call.mel_targets
    /\ mel_first.call.dec_outputs # mel_call.dec_outputs
    /\ mel_call.postnet_outputs # None
    /\ mel_first.call.postnet_outputs # mel_call.postnet_outputs
    /\ mel_ret.value[1] # Zero
    /\ mel_ret.value[2] # Zero
    /\ mel_ret.value[1] # mel_ret.value[2]

\* C9 witness without postnet_outputs.
C9_WitnessNone ==
    /\ mel_ret.kind = "return"
    /\ mel_call.postnet_outputs = None
    /\ mel_ret.value[1] # Zero

-----------------------------------------------------------------------------
(* criterion_builder *)

\* Largest number of entries of config["Loss"] explored.
MaxLossEntries == 2

loss_dict ==
    [generator_adv_loss     |-> "GeneratorAdversarialLoss",
     discriminator_adv_loss |-> "DiscriminatorAdversarialLoss",
     stft_loss              |-> "MultiResolutionSTFTLoss",
     mel_loss               |-> "MelSpectrogramLoss",
     subband_stft_loss      |-> "MultiResolutionSTFTLoss",
     feat_match_loss        |-> "FeatureMatchLoss",
     MelReconLoss           |-> "MelReconLoss",
     ProsodyReconLoss       |-> "ProsodyReconLoss"]

\* The loss_type default of each class that takes a loss_type keyword.
LossTypeDefault ==
    [MelReconLoss                 |-> "mae",
     ProsodyReconLoss             |-> "mae",
     GeneratorAdversarialLoss     |-> "mse",
     DiscriminatorAdversarialLoss |-> "mse"]

\* The loss_type values each such class accepts.
LossTypeAccepted ==
    [MelReconLoss                 |-> {"mae", "mse"},
     ProsodyReconLoss             |-> {"mae", "mse"},
     GeneratorAdversarialLoss     |-> {"mse", "hinge"},
     DiscriminatorAdversarialLoss |-> {"mse", "hinge"}]

\* What each such class does with another loss_type: raise ValueError, or fail its assert.
LossTypeRejection ==
    [MelReconLoss                 |-> "ValueError",
     ProsodyReconLoss             |-> "ValueError",
     GeneratorAdversarialLoss     |-> "AssertionError",
     DiscriminatorAdversarialLoss |-> "AssertionError"]

\* cls(**params): the constructed module, or the exception the constructor ends with.
\* The classes without a loss_type keyword reject it with TypeError.
Construct(cls, params) ==
    IF cls \in DOMAIN LossTypeDefault
    THEN LET lt == Get(params, "loss_type", LossTypeDefault[cls])
         IN  IF lt \in LossTypeAccepted[cls]
             THEN [ok |-> TRUE, obj |-> [cls |-> cls, loss_type |-> lt]]
             ELSE [ok |-> FALSE, exc |-> LossTypeRejection[cls]]
    ELSE IF "loss_type" \in DOMAIN params
         THEN [ok |-> FALSE, exc |-> "TypeError"]
         ELSE [ok |-> TRUE, obj |-> [cls |-> cls, loss_type |-> "none"]]

\* Mutation of WeightsOf: an absent "weights" reads as 0.
WeightsOfNoDefault(value) == Get(value, "weights", 0)

\* value.get("weights", 1.0)
WeightsOf(value) == Get(value, "weights", 1)

\* `key in loss_dict`
InLossDict(key) == key \in DOMAIN loss_dict

\* Mutation of UnknownKey: a key that loss_dict lacks is skipped.
UnknownKeySkipped(crit, key) == [ok |-> TRUE, criterion |-> crit]

\* The else branch: raise NotImplementedError("{} is not implemented".format(key))
UnknownKey(crit, key) == [ok |-> FALSE, exc |-> "NotImplementedError"]

\* One iteration of the loop over config["Loss"].items(): the new criterion
\* dictionary, or the exception that ends the call.
CriterionStep(crit, key, value, device) ==
    IF InLossDict(key)
    THEN IF "enable" \notin DOMAIN value
         THEN [ok |-> FALSE, exc |-> "KeyError"]
         ELSE IF value["enable"]
              THEN LET made == Construct(loss_dict[key], Get(value, "params", EmptyDict))
                   IN  IF made.ok
                       THEN [ok |-> TRUE,
                             criterion |-> Put(crit, key,
                                 [cls       |-> made.obj.cls,
                                  loss_type |-> made.obj.loss_type,
                                  device    |-> device,
                                  weights   |-> WeightsOf(value)])]
                       ELSE made
              ELSE [ok |-> TRUE, criterion |-> crit]
    ELSE UnknownKey(crit, key)

\* The keys of config["Loss"] explored: keys of loss_dict and one that is not.
LossKeys == {"generator_adv_loss", "stft_loss", "subband_stft_loss", "MelReconLoss",
             "wavenet_loss"}

\* The values of config["Loss"] explored: "enable" true, false or absent; "weights"
\* 5 or absent; "params" {"loss_type": "hinge"} or absent.
LossValues ==
    {e @@ w @@ p : e \in {EmptyDict, [enable |-> TRUE], [enable |-> FALSE]},
                   w \in {EmptyDict, [weights |-> 5]},
                   p \in {EmptyDict, [params |-> [loss_type |-> "hinge"]]}}

Devices == {"cpu", "cuda"}

CritCall ==
    /\ crit_config \in ItemSeqs(LossKeys \X LossValues, MaxLossEntries)
    /\ crit_device \in Devices
    /\ crit_idx = 1
    /\ criterion = EmptyDict
    /\ crit_ret = [kind |-> "pending"]

\* The body of the for loop, for the item at crit_idx.
CritLoop ==
    /\ crit_ret.kind = "pending"
    /\ crit_idx <= Len(crit_config)
    /\ LET item == crit_config[crit_idx]
           step == CriterionStep(criterion, item[1], item[2], crit_device)
       IN  IF step.ok
           THEN /\ criterion' = step.criterion
                /\ crit_idx' = crit_idx + 1
                /\ crit_ret' = crit_ret
           ELSE /\ crit_ret' = [kind |-> "raise", exc |-> step.exc]
                /\ UNCHANGED <<criterion, crit_idx>>
    /\ UNCHANGED <<crit_config, crit_device, mbVars, lossVars, melVars>>

\* return criterion
CritReturn ==
    /\ crit_ret.kind = "pending"
    /\ crit_idx > Len(crit_config)
    /\ crit_ret' = [kind |-> "return", value |-> criterion]
    /\ UNCHANGED <<crit_config, crit_device, crit_idx, criterion, mbVars, lossVars, melVars>>

CritNext == CritLoop \/ CritReturn

CritInit == CritCall /\ MbIdle /\ LossIdle

SpecCrit == CritInit /\ [][CritNext]_vars

(* Claims about criterion_builder *)

CritFinished == crit_ret.kind # "pending"

\* The keys of config["Loss"] whose "enable" value is true.
EnabledKeys ==
    {crit_config[n][1] : n \in {m \in 1..Len(crit_config) :
        /\ "enable" \in DOMAIN crit_config[m][2]
        /\ crit_config[m][2]["enable"]}}

\* The value config["Loss"][key].
LossValueOf(key) == crit_config[CHOOSE n \in 1..Len(crit_config) : crit_config[n][1] = key][2]

\* The returned dictionary is the one C1 describes.
ReturnsEnabledCriteria ==
    /\ crit_ret.kind = "return"
    /\ DOMAIN crit_ret.value = EnabledKeys
    /\ \A key \in DOMAIN crit_ret.value :
          /\ crit_ret.value[key].cls = loss_dict[key]
          /\ crit_ret.value[key].weights =
                 (IF "weights" \in DOMAIN LossValueOf(key) THEN LossValueOf(key)["weights"] ELSE 1)

\* An entry with a key of loss_dict that the loop body passes: it has an "enable"
\* key and, when enabled, params its loss class accepts.
EntryAccepted(item) ==
    /\ "enable" \in DOMAIN item[2]
    /\ item[2]["enable"] =>
          Construct(loss_dict[item[1]], Get(item[2], "params", EmptyDict)).ok

AllKeysKnown == KeysOf(crit_config) \subseteq DOMAIN loss_dict

\* C1 as stated: for every config whose config["Loss"] keys are all keys of
\* loss_dict, criterion_builder returns the dictionary of the enabled keys, each an
\* instance of loss_dict[key] carrying the configured weights, or 1.0.
C1_AsStated == (AllKeysKnown /\ CritFinished) => ReturnsEnabledCriteria

\* C1 amended: the same, for the configs whose every entry also has an "enable"
\* key and, when enabled, params that its loss class accepts; for them the call
\* never raises.
C1_EnabledCriteria ==
    (AllKeysKnown /\ \A n \in 1..Len(crit_config) : EntryAccepted(crit_config[n]))
        => /\ crit_ret.kind # "raise"
           /\ CritFinished => ReturnsEnabledCriteria

\* C1 witness: a call returned two criteria, one with configured weights and one
\* with the default, next to no disabled one (the config has two entries).
C1_Witness ==
    /\ crit_ret.kind = "return"
    /\ AllKeysKnown
    /\ Cardinality(DOMAIN crit_ret.value) = 2
    /\ \E a, b \in DOMAIN crit_ret.value :
          /\ crit_ret.value[a].weights = 5
          /\ "weights" \notin DOMAIN LossValueOf(b)
          /\ crit_ret.value[b].weights = 1

HasUnknownKey == ~AllKeysKnown

\* The position of the first key of config["Loss"] that is not a key of loss_dict.
FirstUnknown ==
    CHOOSE n \in 1..Len(crit_config) :
        /\ ~InLossDict(crit_config[n][1])
        /\ \A m \in 1..(n - 1) : InLossDict(crit_config[m][1])

\* C2 as stated: with any key that is not a key of loss_dict, whatever its "enable"
\* value and its position, criterion_builder ends with NotImplementedError.
C2_AsStated ==
    (HasUnknownKey /\ CritFinished)
        => (crit_ret.kind = "raise" /\ crit_ret.exc = "NotImplementedError")

\* C2 amended: with any key that is not a key of loss_dict, whatever its "enable"
\* value and its position, criterion_builder ends with an exception and returns
\* no dictionary; the exception is NotImplementedError when every entry before the
\* first such key has an "enable" key and, when enabled, accepted params.
C2_UnknownKeyRaises ==
    HasUnknownKey
        => /\ crit_ret.kind # "return"
           /\ CritFinished =>
                /\ crit_ret.kind = "raise"
                /\ (\A m \in 1..(FirstUnknown - 1) : EntryAccepted(crit_config[m]))
                      => crit_ret.exc = "NotImplementedError"

\* C2 witness: NotImplementedError for an unknown key without "enable" that follows
\* an enabled, constructed entry.
C2_Witness ==
    /\ crit_ret.kind = "raise"
    /\ crit_ret.exc = "NotImplementedError"
    /\ Len(crit_config) = 2
    /\ ~InLossDict(crit_config[2][1])
    /\ "enable" \notin DOMAIN crit_config[2][2]
    /\ crit_config[1][1] \in DOMAIN criterion


-----------------------------------------------------------------------------
(* model_builder, hifigan_model_builder, sambert_model_builder *)

\* Largest number of entries of config["Model"] explored.
MaxModels == 3

\* The model classes that are globals of kantts/models/__init__.py and that
\* hifigan_model_builder looks up by name for a discriminator.
DiscriminatorClasses ==
    {"MultiScaleDiscriminator", "MultiPeriodDiscriminator", "MultiSpecDiscriminator"}

model_dict == [hifigan |-> "hifigan_model_builder", sambert |-> "sambert_model_builder"]

\* The module whose parameters obj.parameters() yields: DistributedDataParallel
\* yields the parameters of the module it wraps.
RECURSIVE Parameters(_, _)
Parameters(h, id) == IF h[id].kind = "ddp" THEN Parameters(h, h[id].module) ELSE id

\* cls(**params).to(device)
NewModule(cls, params, device) ==
    [kind |-> "module", cls |-> cls, params |-> params, device |-> device]

\* Mutation of optimizer_builder: the optimizer gets no model's parameters.
optimizer_builder_unbound(h, of, opt_name, opt_params) ==
    [kind |-> "optimizer", cls |-> opt_name, params_of |-> 0, opt_params |-> opt_params]

\* optimizer_builder(model_params, opt_name, opt_params), model_params being the
\* parameters of the object at heap id `of`.
optimizer_builder(h, of, opt_name, opt_params) ==
    [kind |-> "optimizer", cls |-> opt_name, params_of |-> Parameters(h, of),
     opt_params |-> opt_params]

\* scheduler_builder(optimizer, sche_name, sche_params)
scheduler_builder(opt, sche_name, sche_params) ==
    [kind |-> "scheduler", cls |-> sche_name, optimizer |-> opt, sche_params |-> sche_params]

\* Mutation of NewDDP: every replica on device 0, whatever the rank.
NewDDPOnFirstDevice(module, rank, bb) ==
    [kind |-> "ddp", module |-> module, device_ids |-> <<0>>, output_device |-> 0,
     broadcast_buffers |-> bb]

\* DistributedDataParallel(module, device_ids=[rank], output_device=rank,
\* broadcast_buffers=bb); broadcast_buffers is True unless the call passes it.
NewDDP(module, rank, bb) ==
    [kind |-> "ddp", module |-> module, device_ids |-> <<rank>>, output_device |-> rank,
     broadcast_buffers |-> bb]

\* The three objects one model entry adds to the heap: the model, its optimizer
\* and its scheduler, at ids Len(h)+1, Len(h)+2 and Len(h)+3.
BuildEntry(h, cls, value, device) ==
    LET m  == Len(h) + 1
        h1 == Append(h, NewModule(cls, value["params"], device))
        h2 == Append(h1, optimizer_builder(h1, m,
                             Get(value["optimizer"], "type", "Adam"),
                             Get(value["optimizer"], "params", EmptyDict)))
    IN  Append(h2, scheduler_builder(m + 1,
                       Get(value["scheduler"], "type", "StepLR"),
                       Get(value["scheduler"], "params", EmptyDict)))

\* The names of config["Model"] other than "Generator", in the order of the config:
\* the insertion order of model["discriminator"].
DiscriminatorOrder(items) == SelectSeq([n \in 1..Len(items) |-> items[n][1]],
                                       LAMBDA name : name # "Generator")

\* Mutation of NeedsPQMF: a PQMF for a single-band generator too.
NeedsPQMFAlways(out_channels) == TRUE

\* `out_channels > 1`
NeedsPQMF(out_channels) == out_channels > 1

\* Mutation of builder_func: every model_type of model_dict runs the first builder.
builder_func_first(config) == "hifigan_model_builder"

\* builder_func = model_dict[config["model_type"]], for a model_type it has.
builder_func(config) == model_dict[config.model_type]

\* The value config["Model"][name] of a config whose "Model" has the key.
ModelValueOf(items, name) == items[CHOOSE n \in 1..Len(items) : items[n][1] = name][2]

(* Inputs *)

\* The "optimizer" and "scheduler" settings of a model entry: all defaults, or a
\* type and params of its own.
TrainSettings ==
    {[optimizer |-> EmptyDict, scheduler |-> EmptyDict],
     [optimizer |-> [type |-> "AdamW", params |-> [lr |-> 2]],
      scheduler |-> [type |-> "NoamLR", params |-> [warmup_steps |-> 4]]]}

GeneratorValues ==
    {[params |-> [out_channels |-> oc]] @@ t : oc \in {1, 4}, t \in TrainSettings}

DiscriminatorValues == {[params |-> EmptyDict] @@ t : t \in TrainSettings}

\* One name that is no global of the module.
UnknownModelNames == {"WaveDiscriminator"}

HifiganItems ==
    ({"Generator"} \X GeneratorValues)
        \cup (DiscriminatorClasses \X DiscriminatorValues)
        \cup (UnknownModelNames \X {[params |-> EmptyDict, optimizer |-> EmptyDict,
                                     scheduler |-> EmptyDict]})

SambertItems == {"KanTtsSAMBERT"} \X DiscriminatorValues

\* The configs explored: a model_type with a config["Model"] written for it (and,
\* for hifigan, with or without a "pqmf" section) or a model_type that model_dict
\* lacks.
Configs ==
    {[model_type |-> "hifigan", Model |-> m] @@ q :
        m \in ItemSeqs(HifiganItems, MaxModels),
        q \in {EmptyDict, [pqmf |-> [taps |-> 62]]}}
        \cup {[model_type |-> "sambert", Model |-> m] : m \in ItemSeqs(SambertItems, 1)}
        \cup {[model_type |-> "fastspeech", Model |-> m] : m \in ItemSeqs(SambertItems, 1)}

\* The optional arguments explored: each absent or given.
OptionalArgs ==
    {d @@ r @@ x : d \in {EmptyDict, [device |-> "cuda"]},
                   r \in {EmptyDict, [rank |-> 1]},
                   x \in {EmptyDict, [distributed |-> TRUE]}}

MbCall ==
    /\ mb_args \in {[config |-> c] @@ o : c \in Configs, o \in OptionalArgs}
    /\ mb_pc = "model_builder"
    /\ builder_call = EmptyDict
    /\ heap = <<>>
    /\ model = EmptyDict
    /\ optimizer = EmptyDict
    /\ scheduler = EmptyDict
    /\ mb_idx = 1
    /\ builder_ret = [kind |-> "pending"]
    /\ mb_ret = [kind |-> "pending"]

(* Actions *)

\* model_builder, lines 124-125: look the builder up and call it.
ModelBuilderDispatch ==
    /\ mb_pc = "model_builder"
    /\ IF mb_args.config.model_type \in DOMAIN model_dict
       THEN /\ builder_call' =
                  [func        |-> builder_func(mb_args.config),
                   config      |-> mb_args.config,
                   device      |-> Get(mb_args, "device", "cpu"),
                   rank        |-> Get(mb_args, "rank", 0),
                   distributed |-> Get(mb_args, "distributed", FALSE)]
            /\ mb_pc' = builder_func(mb_args.config)
            /\ mb_ret' = mb_ret
       ELSE /\ mb_ret' = [kind |-> "raise", exc |-> "KeyError"]
            /\ mb_pc' = "done"
            /\ builder_call' = builder_call
    /\ UNCHANGED <<critVars, lossVars, melVars, mb_args, heap, model, optimizer, scheduler, mb_idx, builder_ret>>

\* hifigan_model_builder, lines 28-33: the empty dictionaries.
HifiganEnter ==
    /\ mb_pc = "hifigan_model_builder"
    /\ model' = [discriminator |-> EmptyDict]
    /\ optimizer' = [discriminator |-> EmptyDict]
    /\ scheduler' = [discriminator |-> EmptyDict]
    /\ mb_idx' = 1
    /\ mb_pc' = "hifigan_loop"
    /\ UNCHANGED <<critVars, lossVars, melVars, mb_args, builder_call, heap, builder_ret, mb_ret>>

\* hifigan_model_builder, lines 34-62: one iteration of the loop over
\* config["Model"].keys().
HifiganLoop ==
    /\ mb_pc = "hifigan_loop"
    /\ mb_idx <= Len(builder_call.config.Model)
    /\ LET name  == builder_call.config.Model[mb_idx][1]
           value == builder_call.config.Model[mb_idx][2]
           m     == Len(heap) + 1
       IN  IF name = "Generator"
           THEN /\ heap' = BuildEntry(heap, "Generator", value, builder_call.device)
                /\ model' = Put(model, "generator", m)
                /\ optimizer' = Put(optimizer, "generator", m + 1)
                /\ scheduler' = Put(scheduler, "generator", m + 2)
                /\ mb_idx' = mb_idx + 1
                /\ UNCHANGED <<mb_pc, builder_ret>>
           ELSE IF name \in DiscriminatorClasses
           THEN /\ heap' = BuildEntry(heap, name, value, builder_call.device)
                /\ model' = Put(model, "discriminator",
                                Put(model["discriminator"], name, m))
                /\ optimizer' = Put(optimizer, "discriminator",
                                    Put(optimizer["discriminator"], name, m + 1))
                /\ scheduler' = Put(scheduler, "discriminator",
                                    Put(scheduler["discriminator"], name, m + 2))
                /\ mb_idx' = mb_idx + 1
                /\ UNCHANGED <<mb_pc, builder_ret>>
           ELSE \* globals()[model_name] has no such name
                /\ builder_ret' = [kind |-> "raise", exc |-> "KeyError"]
                /\ mb_pc' = "builder_done"
                /\ UNCHANGED <<heap, model, optimizer, scheduler, mb_idx>>
    /\ UNCHANGED <<critVars, lossVars, melVars, mb_args, builder_call, mb_ret>>

\* hifigan_model_builder, lines 64-66: the PQMF of a multi-band generator.
HifiganPQMF ==
    /\ mb_pc = "hifigan_loop"
    /\ mb_idx > Len(builder_call.config.Model)
    /\ IF "Generator" \in KeysOf(builder_call.config.Model)
       THEN LET out_channels ==
                    ModelValueOf(builder_call.config.Model, "Generator")["params"]["out_channels"]
            IN  /\ IF NeedsPQMF(out_channels)
                   THEN /\ heap' = Append(heap,
                               NewModule("PQMF",
                                         [subbands |-> out_channels]
                                             @@ Get(builder_call.config, "pqmf", EmptyDict),
                                         builder_call.device))
                        /\ model' = Put(model, "pqmf", Len(heap) + 1)
                   ELSE UNCHANGED <<heap, model>>
                /\ mb_pc' = IF builder_call.distributed
                            THEN "hifigan_ddp_generator" ELSE "hifigan_return"
                /\ UNCHANGED builder_ret
       ELSE \* config["Model"]["Generator"] has no such key
            /\ builder_ret' = [kind |-> "raise", exc |-> "KeyError"]
            /\ mb_pc' = "builder_done"
            /\ UNCHANGED <<heap, model>>
    /\ UNCHANGED <<critVars, lossVars, melVars, mb_args, builder_call, optimizer, scheduler, mb_idx, mb_ret>>

\* hifigan_model_builder, lines 71-76: wrap the generator.
HifiganWrapGenerator ==
    /\ mb_pc = "hifigan_ddp_generator"
    /\ heap' = Append(heap, NewDDP(model["generator"], builder_call.rank, FALSE))
    /\ model' = Put(model, "generator", Len(heap) + 1)
    /\ mb_idx' = 1
    /\ mb_pc' = "hifigan_ddp_discriminator"
    /\ UNCHANGED <<critVars, lossVars, melVars, mb_args, builder_call, optimizer, scheduler, builder_ret, mb_ret>>

\* hifigan_model_builder, lines 77-83: one iteration of the loop over
\* model["discriminator"].keys().
HifiganWrapDiscriminator ==
    /\ mb_pc = "hifigan_ddp_discriminator"
    /\ LET order == DiscriminatorOrder(builder_call.config.Model)
       IN  IF mb_idx <= Len(order)
           THEN /\ heap' = Append(heap,
                       NewDDP(model["discriminator"][order[mb_idx]], builder_call.rank, FALSE))
                /\ model' = Put(model, "discriminator",
                                Put(model["discriminator"], order[mb_idx], Len(heap) + 1))
                /\ mb_idx' = mb_idx + 1
                /\ mb_pc' = mb_pc
           ELSE /\ mb_pc' = "hifigan_return"
                /\ UNCHANGED <<heap, model, mb_idx>>
    /\ UNCHANGED <<critVars, lossVars, melVars, mb_args, builder_call, optimizer, scheduler, builder_ret, mb_ret>>

\* hifigan_model_builder, line 85: return model, optimizer, scheduler
HifiganReturn ==
    /\ mb_pc = "hifigan_return"
    /\ builder_ret' = [kind |-> "return", model |-> model, optimizer |-> optimizer,
                       scheduler |-> scheduler]
    /\ mb_pc' = "builder_done"
    /\ UNCHANGED <<critVars, lossVars, melVars, mb_args, builder_call, heap, model, optimizer, scheduler, mb_idx, mb_ret>>

\* sambert_model_builder, lines 90-113.
SambertBuild ==
    /\ mb_pc = "sambert_model_builder"
    /\ IF "KanTtsSAMBERT" \in KeysOf(builder_call.config.Model)
       THEN LET value == ModelValueOf(builder_call.config.Model, "KanTtsSAMBERT")
                m     == Len(heap) + 1
                built == BuildEntry(heap, "KanTtsSAMBERT", value, builder_call.device)
            IN  /\ heap' = IF builder_call.distributed
                           THEN Append(built, NewDDP(m, builder_call.rank, TRUE))
                           ELSE built
                /\ model' = [KanTtsSAMBERT |-> IF builder_call.distributed THEN m + 3 ELSE m]
                /\ optimizer' = [KanTtsSAMBERT |-> m + 1]
                /\ scheduler' = [KanTtsSAMBERT |-> m + 2]
                /\ builder_ret' = [kind |-> "return", model |-> model',
                                   optimizer |-> optimizer', scheduler |-> scheduler']
       ELSE /\ builder_ret' = [kind |-> "raise", exc |-> "KeyError"]
            /\ UNCHANGED <<heap, model, optimizer, scheduler>>
    /\ mb_pc' = "builder_done"
    /\ UNCHANGED <<critVars, lossVars, melVars, mb_args, builder_call, mb_idx, mb_ret>>

\* model_builder, lines 125-126: unpack the builder's triple and return it; an
\* exception of the builder passes through.
ModelBuilderReturn ==
    /\ mb_pc = "builder_done"
    /\ mb_ret' = builder_ret
    /\ mb_pc' = "done"
    /\ UNCHANGED <<critVars, lossVars, melVars, mb_args, builder_call, heap, model, optimizer, scheduler, mb_idx,
                   builder_ret>>

MbNext ==
    \/ ModelBuilderDispatch
    \/ HifiganEnter
    \/ HifiganLoop
    \/ HifiganPQMF
    \/ HifiganWrapGenerator
    \/ HifiganWrapDiscriminator
    \/ HifiganReturn
    \/ SambertBuild
    \/ ModelBuilderReturn

MbInit == MbCall /\ CritIdle /\ LossIdle

SpecMb == MbInit /\ [][MbNext]_vars

(* Claims about model_builder and hifigan_model_builder *)

Dispatched == DOMAIN builder_call # {}

HifiganReturned ==
    /\ Dispatched
    /\ builder_call.func = "hifigan_model_builder"
    /\ builder_ret.kind = "return"

\* C3: model_builder selects the builder by config["model_type"] alone, passes it
\* the config, device, rank and distributed it received (defaults "cpu", 0, False)
\* and returns its triple unchanged; another model_type ends in KeyError with
\* nothing constructed.
C3_Dispatch ==
    LET mt == mb_args.config.model_type IN
    mb_pc # "idle" =>
      /\ Dispatched =>
           /\ mt = "hifigan" => builder_call.func = "hifigan_model_builder"
           /\ mt = "sambert" => builder_call.func = "sambert_model_builder"
           /\ mt \in {"hifigan", "sambert"}
           /\ builder_call.config = mb_args.config
           /\ builder_call.device =
                 (IF "device" \in DOMAIN mb_args THEN mb_args.device ELSE "cpu")
           /\ builder_call.rank = (IF "rank" \in DOMAIN mb_args THEN mb_args.rank ELSE 0)
           /\ builder_call.distributed =
                 (IF "distributed" \in DOMAIN mb_args THEN mb_args.distributed ELSE FALSE)
      /\ (mb_pc = "done" /\ mt \in {"hifigan", "sambert"}) =>
           /\ Dispatched
           /\ mb_ret = builder_ret
           /\ mb_ret.kind \in {"return", "raise"}
      /\ mt \notin {"hifigan", "sambert"} =>
           /\ ~Dispatched
           /\ heap = <<>>
           /\ mb_pc = "done" => mb_ret = [kind |-> "raise", exc |-> "KeyError"]

\* C3 witness: model_builder returned the triple of sambert_model_builder, called
\* with the defaults for device and distributed and the given rank.
C3_Witness ==
    /\ mb_pc = "done"
    /\ mb_ret.kind = "return"
    /\ builder_call.func = "sambert_model_builder"
    /\ DOMAIN mb_args = {"config", "rank"}
    /\ builder_call.rank = 1
    /\ builder_call.device = "cpu"
    /\ "KanTtsSAMBERT" \in DOMAIN mb_ret.model

\* The scheduler at heap id s is built over the optimizer at id o, which is built
\* over the parameters of the model at id m, a model of class cls.
Chained(m, o, s, cls) ==
    /\ heap[s].kind = "scheduler"
    /\ heap[s].optimizer = o
    /\ heap[o].kind = "optimizer"
    /\ heap[o].params_of = Parameters(heap, m)
    /\ heap[Parameters(heap, m)].kind = "module"
    /\ heap[Parameters(heap, m)].cls = cls

\* C4: the dictionaries hifigan_model_builder returns have matching structure: the
\* three "discriminator" dictionaries have the keys of config["Model"] other than
\* "Generator", each dictionary has a "generator", and for every name the
\* scheduler is built over that name's optimizer, built over the parameters of
\* that name's model.
C4_MatchingStructure ==
    HifiganReturned =>
      LET r     == builder_ret
          names == KeysOf(builder_call.config.Model) \ {"Generator"}
      IN  /\ DOMAIN r.model["discriminator"] = names
          /\ DOMAIN r.optimizer["discriminator"] = names
          /\ DOMAIN r.scheduler["discriminator"] = names
          /\ "generator" \in DOMAIN r.model
          /\ "generator" \in DOMAIN r.optimizer
          /\ "generator" \in DOMAIN r.scheduler
          /\ Chained(r.model["generator"], r.optimizer["generator"],
                     r.scheduler["generator"], "Generator")
          /\ \A n \in names :
                Chained(r.model["discriminator"][n], r.optimizer["discriminator"][n],
                        r.scheduler["discriminator"][n], n)

\* C4 witness: a distributed call returned a generator and two discriminators.
C4_Witness ==
    /\ HifiganReturned
    /\ builder_call.distributed
    /\ Cardinality(DOMAIN builder_ret.model["discriminator"]) = 2
    /\ builder_call.config.Model[2][1] = "Generator"

\* The heap ids of the generator and the discriminators of the dictionary m.
ModelIds(m) ==
    (IF "generator" \in DOMAIN m THEN {m["generator"]} ELSE {})
        \cup {m["discriminator"][n] : n \in DOMAIN m["discriminator"]}

InHifigan == Dispatched /\ builder_call.func = "hifigan_model_builder"

\* C5, the state part: a returned model has its generator and every discriminator
\* wrapped in DistributedDataParallel(device_ids=[rank], output_device=rank,
\* broadcast_buffers=False) when distributed is true and none of them wrapped when
\* it is false; every optimizer is over the parameters of an unwrapped model and
\* was created before any wrapper.
C5_State ==
    InHifigan =>
      /\ HifiganReturned =>
           \A id \in ModelIds(builder_ret.model) :
              IF builder_call.distributed
              THEN /\ heap[id].kind = "ddp"
                   /\ heap[id].device_ids = <<builder_call.rank>>
                   /\ heap[id].output_device = builder_call.rank
                   /\ heap[id].broadcast_buffers = FALSE
                   /\ heap[heap[id].module].kind = "module"
              ELSE heap[id].kind = "module"
      /\ \A o \in 1..Len(heap) :
           heap[o].kind = "optimizer" =>
             /\ heap[o].params_of \in 1..(o - 1)
             /\ heap[heap[o].params_of].kind = "module"
             /\ \A d \in 1..Len(heap) : heap[d].kind = "ddp" => o < d

\* C5, the step part: no wrapping step changes the keys of model["discriminator"].
C5_Step ==
    (mb_pc \in {"hifigan_ddp_generator", "hifigan_ddp_discriminator"}) =>
        DOMAIN model'["discriminator"] = DOMAIN model["discriminator"]

\* C5: in hifigan_model_builder the generator and every discriminator are wrapped
\* exactly when distributed is true, with device_ids=[rank], output_device=rank and
\* broadcast_buffers=False; every optimizer was created from the parameters of the
\* unwrapped model before any wrapping; wrapping keeps the discriminators' keys.
C5_Wrapping == [](C5_State) /\ [][C5_Step]_vars

\* C5 witness: a distributed call on rank 1 returned two wrapped discriminators.
C5_Witness ==
    /\ HifiganReturned
    /\ builder_call.distributed
    /\ builder_call.rank = 1
    /\ Cardinality(DOMAIN builder_ret.model["discriminator"]) = 2
    /\ \A id \in ModelIds(builder_ret.model) : heap[id].kind = "ddp"

GeneratorOutChannels ==
    ModelValueOf(builder_call.config.Model, "Generator")["params"]["out_channels"]

\* C10: hifigan_model_builder returns a "pqmf" model exactly when the generator's
\* out_channels is greater than 1, built with subbands = out_channels; pqmf has no
\* optimizer and no scheduler and is never wrapped in DistributedDataParallel.
C10_PQMF ==
    HifiganReturned =>
      LET r == builder_ret IN
      /\ ("pqmf" \in DOMAIN r.model) <=> (GeneratorOutChannels > 1)
      /\ "pqmf" \notin DOMAIN r.optimizer
      /\ "pqmf" \notin DOMAIN r.scheduler
      /\ "pqmf" \in DOMAIN r.model =>
           /\ heap[r.model["pqmf"]].kind = "module"
           /\ heap[r.model["pqmf"]].cls = "PQMF"
           /\ heap[r.model["pqmf"]].params["subbands"] = GeneratorOutChannels
           /\ \A id \in 1..Len(heap) :
                /\ heap[id].kind = "ddp" => heap[id].module # r.model["pqmf"]
                /\ heap[id].kind = "optimizer" => heap[id].params_of # r.model["pqmf"]

\* C10 witness: a distributed call with a 4-band generator returned a pqmf next to
\* a wrapped generator.
C10_Witness ==
    /\ HifiganReturned
    /\ builder_call.distributed
    /\ GeneratorOutChannels = 4
    /\ "pqmf" \in DOMAIN builder_ret.model
    /\ heap[builder_ret.model["generator"]].kind = "ddp"

\* C10 witness of the other side: a single-band generator, and no pqmf.
C10_WitnessSingleBand ==
    /\ HifiganReturned
    /\ GeneratorOutChannels = 1
    /\ "pqmf" \notin DOMAIN builder_ret.model

=============================================================================
